---- MODULE Spec2Model ----
(***************************************************************************)
(* Auxil: the packed-array doubly linked list (LinkedList, containers.hpp), *)
(* the spin-locked AtomicQueue and the Executor worker pool (threading.hpp).*)
(*                                                                         *)
(* A list/queue object is a record                                         *)
(*   [nodes, length, cur_index, status, oob]                               *)
(* nodes is the Array<Node> (a function on 0..capacity-1), status is the    *)
(* way the running call ends ("ok", "throw" for Auxil::Exception, "crash"   *)
(* for a process killed by an out-of-bounds write) and oob records that a   *)
(* call wrote outside the array (Array::emplace_at has no bounds check).    *)
(* Every member function is an operator from such a record to the record    *)
(* after the call; its statements are applied in source order, and a        *)
(* statement after a throw is skipped.                                      *)
(* Then(E, LAMBDA s1 : ...) names the object the statements so far have    *)
(* left.  The threads of the AtomicQueue and Executor specifications take   *)
(* one step per lock acquisition, critical section and atomic store/load.   *)
(***************************************************************************)
EXTENDS Integers, Sequences, FiniteSets, TLC

\* ------------------------------------------------------------------ bounds
MaxInit == 3         \* longest initializer list a list is constructed from
MaxCalls == 4        \* calls then made on the list
MaxFifo == 5         \* N of the push-N-then-pop-N runs
MaxTrace == 5        \* calls of a scenario run
MaxResize == 3       \* largest argument of reserve / resize
MaxStep == 2         \* largest argument of advance(n) / retreat(n)
NumProducers == 2    \* P: threads calling AtomicQueue::push_back
PerProducer == 2     \* M: values each of them pushes
NumConsumers == 2    \* C: threads calling AtomicQueue::try_pop_front
NumThreads == 2      \* worker threads of the Executor
MaxTasks == 3        \* execute() calls made on the Executor
MaxFailing == 1      \* tasks among them whose function throws
MaxGrow == 4         \* calls made on the two lists compared, and the capacity reserved
NumReservers == 1    \* threads calling AtomicQueue::reserve
MaxReserve == 2      \* largest new_size they pass
MaxAccepted == 4     \* execute() calls made on the running Executor
MaxBuild == 4        \* calls that build the list swap is applied to

\* numeric_limits<usize>::max(); usize is narrowed to 8 bits, so that
\* length - 1 at length 0 and length++ at npos wrap as in the program
npos == 255

Values == {1, 2}     \* values pushed by the general model; T() is 0

VARIABLES
    nodes, length, cur_index,   \* fields of the LinkedList / AtomicQueue
    status, oob,                \* how the last call ended; a call wrote out of bounds
    calls,                      \* number of calls made on the object
    trace, pushed, out,         \* calls made, values pushed, values read back
    modifying_flag,             \* AtomicQueue::modifying_flag
    failsafe, running,          \* Executor::failsafe, the workers' running flags
    pc, local,                  \* where each thread is, and its local variable
    ran,                        \* the tasks run, in the order they completed
    ghost,                      \* what was the case when wait() / ~Executor() returned
    future,                     \* the shared state of the future of each task
    twin                        \* a second list, given the same calls as the first

listVars == <<nodes, length, cur_index, status, oob, calls>>
histVars == <<trace, pushed, out>>
threadVars == <<modifying_flag, failsafe, running, pc, local, ran, ghost>>
auxVars == <<future, twin>>
vars == <<listVars, histVars, threadVars, auxVars>>

\* a list used by one thread: no lock taken, no pool, no thread started
NoThreads ==
    /\ modifying_flag = FALSE /\ failsafe = TRUE
    /\ running = <<>> /\ pc = <<>> /\ local = <<>> /\ ran = <<>> /\ ghost = <<>>
    /\ future = <<>>

\* --------------------------------------------------------------- Node, Array
MkNode(valid, value, prev, next) ==
    [valid |-> valid, value |-> value, prev |-> prev, next |-> next]

\* Node{}: valid = false, value = T(), prev = next = npos
DefaultNode == MkNode(FALSE, 0, npos, npos)

\* Array::size()
Cap(s) == Cardinality(DOMAIN s.nodes)

InBounds(s, i) == i \in DOMAIN s.nodes

Running(s) == s.status = "ok"

\* usize arithmetic: n - 1 and n + 1 modulo 2^width
Pred(n) == (n + npos) % (npos + 1)
Succ(n) == (n + 1) % (npos + 1)

Min(a, b) == IF a < b THEN a ELSE b

\* Array::operator[] : throws when ind >= _size
At(s, i) == IF ~Running(s) \/ InBounds(s, i) THEN s ELSE [s EXCEPT !.status = "throw"]

\* nodes[i].prev = v
SetPrev(s, i, v) ==
    IF ~Running(s) THEN s
    ELSE IF ~InBounds(s, i) THEN [s EXCEPT !.status = "throw"]
    ELSE [s EXCEPT !.nodes[i].prev = v]

\* nodes[i].next = v
SetNext(s, i, v) ==
    IF ~Running(s) THEN s
    ELSE IF ~InBounds(s, i) THEN [s EXCEPT !.status = "throw"]
    ELSE [s EXCEPT !.nodes[i].next = v]

\* p->prev = v, p->next = v through a Node* taken earlier (no bounds check)
PtrSetPrev(s, i, v) == IF Running(s) THEN [s EXCEPT !.nodes[i].prev = v] ELSE s
PtrSetNext(s, i, v) == IF Running(s) THEN [s EXCEPT !.nodes[i].next = v] ELSE s

\* cur_index = v
SetCur(s, v) == IF Running(s) THEN [s EXCEPT !.cur_index = v] ELSE s

\* length--
DecLength(s) == IF Running(s) THEN [s EXCEPT !.length = Pred(@)] ELSE s

\* Node::reset() through a Node*
reset(s, i) == IF Running(s) THEN [s EXCEPT !.nodes[i] = DefaultNode] ELSE s

\* Array::emplace_at(ind, ...): destroy_at + placement new, no bounds check.
\* Out of bounds is undefined behaviour: the process dies (ubo = "crash") or
\* the write lands outside the array and the call goes on (ubo = "stray").
UBOutcomes == {"crash", "stray"}

emplace_at(s, ind, node, ubo) ==
    IF ~Running(s) THEN s
    ELSE IF InBounds(s, ind) THEN [s EXCEPT !.nodes[ind] = node]
    ELSE IF ubo = "crash" THEN [s EXCEPT !.oob = TRUE, !.status = "crash"]
    ELSE [s EXCEPT !.oob = TRUE]

\* statement sequencing: F applied to the object the statements so far left
\* (the object is bound as a value, so that it is computed once)
Then(s, F(_)) == CHOOSE r \in {F(x) : x \in {s}} : TRUE

\* ---------------------------------------------------------- LinkedList::swap
swap_ignores_adjacency(s0, i1, i2) ==
    IF ~Running(s0) THEN s0 ELSE
    Then(At(At([s0 EXCEPT !.cur_index = IF @ = i1 THEN i2 ELSE IF @ = i2 THEN i1 ELSE @],
               i1), i2), LAMBDA s2 :
    IF ~Running(s2) THEN s2 ELSE
    LET n1  == s2.nodes[i1].next
    IN
    Then(IF n1 = npos THEN s2 ELSE SetPrev(s2, n1, i2), LAMBDA s3 :
    IF ~Running(s3) THEN s3 ELSE
    LET p1  == s3.nodes[i1].prev
    IN
    Then(IF p1 = npos THEN s3 ELSE SetNext(s3, p1, i2), LAMBDA s4 :
    IF ~Running(s4) THEN s4 ELSE
    Then(LET n2 == s4.nodes[i2].next
         IN  IF n2 # npos THEN SetPrev(s4, n2, i1) ELSE s4, LAMBDA s5 :
    IF ~Running(s5) THEN s5 ELSE
    Then(LET p2 == s5.nodes[i2].prev
         IN  IF p2 # npos THEN SetNext(s5, p2, i1) ELSE s5, LAMBDA s6 :
    IF ~Running(s6) THEN s6 ELSE
        [s6 EXCEPT !.nodes = [@ EXCEPT ![i1] = s6.nodes[i2], ![i2] = s6.nodes[i1]]])))))

swap(s0, i1, i2) ==
    IF ~Running(s0) THEN s0 ELSE
    Then(At(At([s0 EXCEPT !.cur_index = IF @ = i1 THEN i2 ELSE IF @ = i2 THEN i1 ELSE @],
               i1), i2), LAMBDA s2 :
    IF ~Running(s2) THEN s2 ELSE
    LET n1  == s2.nodes[i1].next
        c2p == ~(n1 # npos /\ n1 = i2)
    IN
    Then(IF n1 = npos THEN s2
         ELSE IF n1 = i2 THEN PtrSetNext(SetPrev(s2, n1, i2), i1, i1)
         ELSE SetPrev(s2, n1, i2), LAMBDA s3 :
    IF ~Running(s3) THEN s3 ELSE
    LET p1  == s3.nodes[i1].prev
        c2n == ~(p1 # npos /\ p1 = i2)
    IN
    Then(IF p1 = npos THEN s3
         ELSE IF p1 = i2 THEN PtrSetPrev(SetNext(s3, p1, i2), i1, i1)
         ELSE SetNext(s3, p1, i2), LAMBDA s4 :
    IF ~Running(s4) THEN s4 ELSE
    Then(LET n2 == s4.nodes[i2].next
         IN  IF n2 # npos /\ c2n THEN SetPrev(s4, n2, i1) ELSE s4, LAMBDA s5 :
    IF ~Running(s5) THEN s5 ELSE
    Then(LET p2 == s5.nodes[i2].prev
         IN  IF p2 # npos /\ c2p THEN SetNext(s5, p2, i1) ELSE s5, LAMBDA s6 :
    IF ~Running(s6) THEN s6 ELSE
        [s6 EXCEPT !.nodes = [@ EXCEPT ![i1] = s6.nodes[i2], ![i2] = s6.nodes[i1]]])))))

\* ------------------------------------------------------- LinkedList::reserve
\* "new T[size]" with a size from a wrapped length (upper half of the usize
\* range) throws std::bad_array_new_length before anything is changed.
reserve(s, new_size) ==
    IF ~Running(s) THEN s
    ELSE IF new_size > npos \div 2 THEN [s EXCEPT !.status = "throw"]
    ELSE
    [s EXCEPT !.nodes  = [i \in 0..(new_size - 1) |->
                             IF i \in DOMAIN s.nodes THEN s.nodes[i] ELSE DefaultNode],
              !.length = Min(new_size, s.length)]

\* ----------------------------------------------------- LinkedList::push_back
push_back(s, value, ubo) ==
    Then(IF s.length = Cap(s) THEN reserve(s, Cap(s) * 2 + 1) ELSE s, LAMBDA s1 :
    LET back_ind == IF s1.length > 0 THEN (IF s1.length >= 2 THEN 1 ELSE 0) ELSE npos
    IN
    Then(emplace_at([s1 EXCEPT !.length = Succ(@)], s1.length,
                    MkNode(TRUE, value, back_ind, npos), ubo), LAMBDA s2 :
    Then(IF back_ind # npos THEN SetNext(s2, back_ind, Pred(s2.length)) ELSE s2, LAMBDA s3 :
    Then(IF s3.length > 2 THEN swap(s3, 1, Pred(s3.length)) ELSE s3, LAMBDA s4 :
    IF s4.cur_index = npos THEN SetCur(s4, 0) ELSE s4))))

\* ---------------------------------------------------- LinkedList::push_front
push_front(s, value, ubo) ==
    Then(IF s.length = Cap(s) THEN reserve(s, Cap(s) * 2 + 1) ELSE s, LAMBDA s1 :
    LET start_ind == IF s1.length > 0 THEN 0 ELSE npos
    IN
    Then(emplace_at([s1 EXCEPT !.length = Succ(@)], s1.length,
                    MkNode(TRUE, value, npos, start_ind), ubo), LAMBDA s2 :
    Then(IF start_ind # npos THEN SetPrev(s2, start_ind, Pred(s2.length)) ELSE s2, LAMBDA s3 :
    Then(IF s3.length > 1 THEN swap(s3, 0, Pred(s3.length)) ELSE s3, LAMBDA s4 :
    IF s4.cur_index = npos THEN SetCur(s4, 0) ELSE s4))))

\* ---------------------------------------------------- LinkedList::push_ahead
\* "reserve(nodes.size()*2)+1": the +1 is applied to the reference reserve
\* returns, so the capacity asked for is size*2.
push_ahead(s, value, ubo) ==
    Then(IF s.length = Cap(s) THEN reserve(s, Cap(s) * 2) ELSE s, LAMBDA s1 :
    LET c == s1.cur_index IN
    Then(IF c # npos THEN At(s1, c) ELSE s1, LAMBDA s2 :
    IF ~Running(s2) THEN s2 ELSE
    LET ind == s2.length
        new == MkNode(TRUE, value, c, IF c # npos THEN s2.nodes[c].next ELSE npos)
    IN
    Then(emplace_at([s2 EXCEPT !.length = Succ(@)], ind, new, ubo), LAMBDA s3 :
    LET x == IF c # npos THEN s3.nodes[c].next ELSE npos IN
    Then(IF c = npos THEN s3
         ELSE PtrSetNext(IF x # npos THEN SetPrev(s3, x, Pred(s3.length)) ELSE s3,
                         c, Pred(s3.length)), LAMBDA s4 :
    LET n == IF InBounds(s4, ind) THEN s4.nodes[ind] ELSE new IN
    Then(IF n.next = npos /\ s4.length > 2 THEN swap(s4, Pred(s4.length), 1) ELSE s4,
         LAMBDA s5 :
    IF s5.cur_index = npos THEN SetCur(s5, 0) ELSE s5)))))

\* --------------------------------------------------- LinkedList::push_behind
push_behind(s, value, ubo) ==
    Then(IF s.length = Cap(s) THEN reserve(s, Cap(s) * 2) ELSE s, LAMBDA s1 :
    LET c == s1.cur_index IN
    Then(IF c # npos THEN At(s1, c) ELSE s1, LAMBDA s2 :
    IF ~Running(s2) THEN s2 ELSE
    LET ind == s2.length
        new == MkNode(TRUE, value, IF c # npos THEN s2.nodes[c].prev ELSE npos, c)
    IN
    Then(emplace_at([s2 EXCEPT !.length = Succ(@)], ind, new, ubo), LAMBDA s3 :
    LET x == IF c # npos THEN s3.nodes[c].prev ELSE npos IN
    Then(IF c = npos THEN s3
         ELSE PtrSetPrev(IF x # npos THEN SetNext(s3, x, Pred(s3.length)) ELSE s3,
                         c, Pred(s3.length)), LAMBDA s4 :
    LET n == IF InBounds(s4, ind) THEN s4.nodes[ind] ELSE new IN
    Then(IF n.prev = npos /\ s4.length > 1 THEN swap(s4, Pred(s4.length), 0) ELSE s4,
         LAMBDA s5 :
    IF s5.cur_index = npos THEN SetCur(s5, 0) ELSE s5)))))

\* ----------------------------------------------------- LinkedList::pop_ahead
pop_ahead(s) ==
    IF s.cur_index = npos THEN s ELSE
    LET c == s.cur_index IN
    Then(At(s, c), LAMBDA s1 :
    IF ~Running(s1) THEN s1 ELSE
    LET nex_id == s1.nodes[c].next IN
    Then(IF nex_id # npos THEN At(s1, nex_id) ELSE s1, LAMBDA s2 :
    IF ~Running(s2) \/ nex_id = npos THEN s2 ELSE
    Then(PtrSetNext(s2, c, s2.nodes[nex_id].next), LAMBDA s3 :
    Then(LET cn == s3.nodes[c].next
         IN  IF cn # npos THEN SetPrev(s3, cn, s3.cur_index) ELSE s3, LAMBDA s4 :
    Then(IF s4.nodes[nex_id].next = npos
         THEN swap(s4, s4.cur_index, IF s4.length > 1 THEN 1 ELSE 0)
         ELSE s4, LAMBDA s5 :
    Then(reset(s5, nex_id), LAMBDA s6 :
    DecLength(swap(s6, nex_id, Pred(s6.length)))))))))

\* ---------------------------------------------------- LinkedList::pop_behind
pop_behind(s) ==
    IF s.cur_index = npos THEN s ELSE
    LET c == s.cur_index IN
    Then(At(s, c), LAMBDA s1 :
    IF ~Running(s1) THEN s1 ELSE
    LET prev_id == s1.nodes[c].prev IN
    Then(IF prev_id # npos THEN At(s1, prev_id) ELSE s1, LAMBDA s2 :
    IF ~Running(s2) \/ prev_id = npos THEN s2 ELSE
    Then(PtrSetPrev(s2, c, s2.nodes[prev_id].prev), LAMBDA s3 :
    Then(LET cp == s3.nodes[c].prev
         IN  IF cp # npos THEN SetNext(s3, cp, s3.cur_index) ELSE s3, LAMBDA s4 :
    Then(IF s4.nodes[prev_id].prev = npos THEN swap(s4, s4.cur_index, 0) ELSE s4,
         LAMBDA s5 :
    Then(reset(s5, prev_id), LAMBDA s6 :
    DecLength(swap(s6, prev_id, Pred(s6.length)))))))))

\* --------------------------------------------------- LinkedList::pop_advance
\* cur, next and prev are Node* into the array: they keep naming the same
\* physical slot whatever swap moves into it.
pop_advance(s) ==
    IF s.cur_index = npos THEN s ELSE
    LET c == s.cur_index IN
    Then(At(s, c), LAMBDA s1 :
    IF ~Running(s1) THEN s1 ELSE
    LET nx == s1.nodes[c].next IN
    Then(IF nx # npos THEN At(s1, nx) ELSE s1, LAMBDA s2 :
    IF ~Running(s2) THEN s2 ELSE
    LET pv == s2.nodes[c].prev IN
    Then(IF pv # npos THEN At(s2, pv) ELSE s2, LAMBDA s3 :
    IF ~Running(s3) THEN s3 ELSE
    IF nx # npos THEN
        Then(IF s3.nodes[c].prev = npos THEN swap(s3, s3.nodes[c].next, 0) ELSE s3,
             LAMBDA a1 :
        Then(PtrSetPrev(a1, nx, a1.nodes[c].prev), LAMBDA a2 :
        Then(IF pv # npos THEN PtrSetNext(a2, pv, a2.nodes[c].next) ELSE a2, LAMBDA a3 :
        LET cind == a3.cur_index IN
        Then(reset(SetCur(a3, a3.nodes[c].next), c), LAMBDA r :
        DecLength(swap(r, cind, Pred(r.length)))))))
    ELSE IF pv # npos THEN
        Then(swap(s3, s3.nodes[c].prev, IF s3.length > 1 THEN 1 ELSE 0), LAMBDA b1 :
        Then(PtrSetNext(b1, pv, npos), LAMBDA b2 :
        LET cind == b2.cur_index IN
        Then(reset(SetCur(b2, b2.nodes[c].prev), c), LAMBDA r :
        DecLength(swap(r, cind, Pred(r.length))))))
    ELSE DecLength(SetCur(reset(s3, c), npos)))))

\* --------------------------------------------------- LinkedList::pop_retreat
pop_retreat(s) ==
    IF s.cur_index = npos THEN s ELSE
    LET c == s.cur_index IN
    Then(At(s, c), LAMBDA s1 :
    IF ~Running(s1) THEN s1 ELSE
    LET nx == s1.nodes[c].next IN
    Then(IF nx # npos THEN At(s1, nx) ELSE s1, LAMBDA s2 :
    IF ~Running(s2) THEN s2 ELSE
    LET pv == s2.nodes[c].prev IN
    Then(IF pv # npos THEN At(s2, pv) ELSE s2, LAMBDA s3 :
    IF ~Running(s3) THEN s3 ELSE
    IF pv # npos THEN
        Then(IF s3.nodes[c].next = npos
             THEN swap(s3, s3.nodes[c].next, IF s3.length > 1 THEN 1 ELSE 0)
             ELSE s3, LAMBDA a1 :
        Then(PtrSetNext(a1, pv, a1.nodes[c].next), LAMBDA a2 :
        Then(IF nx # npos THEN PtrSetPrev(a2, nx, a2.nodes[c].prev) ELSE a2, LAMBDA a3 :
        LET cind == a3.cur_index IN
        Then(reset(SetCur(a3, a3.nodes[c].prev), c), LAMBDA r :
        DecLength(swap(r, cind, Pred(r.length)))))))
    ELSE IF nx # npos THEN
        Then(swap(s3, s3.nodes[c].next, 0), LAMBDA b1 :
        Then(PtrSetPrev(b1, nx, npos), LAMBDA b2 :
        LET cind == b2.cur_index IN
        Then(reset(SetCur(b2, b2.nodes[c].next), c), LAMBDA r :
        DecLength(swap(r, cind, Pred(r.length))))))
    ELSE DecLength(SetCur(reset(s3, c), npos)))))

\* ------------------------------------------------------ LinkedList::pop_back
pop_back(s) ==
    IF s.cur_index = npos THEN s ELSE
    LET back_ind == IF s.length > 0 THEN (IF s.length >= 2 THEN 1 ELSE 0) ELSE npos
    IN  IF back_ind = npos THEN s ELSE
    Then(At(s, back_ind), LAMBDA s1 :
    IF ~Running(s1) THEN s1 ELSE
    Then(IF back_ind = s1.cur_index THEN SetCur(s1, s1.nodes[back_ind].prev) ELSE s1,
         LAMBDA s2 :
    Then(swap(s2, back_ind, Pred(s2.length)), LAMBDA s3 :
    LET bk == Pred(s3.length) IN
    Then(At(s3, bk), LAMBDA s4 :
    IF ~Running(s4) THEN s4 ELSE
    Then(IF s4.nodes[bk].prev # npos THEN swap(s4, s4.nodes[bk].prev, back_ind) ELSE s4,
         LAMBDA s5 :
    DecLength(reset(s5, bk)))))))

\* pop_front without the swap that brings the successor into slot 0
pop_front_keeps_slot(s) ==
    IF s.cur_index = npos THEN s ELSE
    Then(At(s, 0), LAMBDA s1 :
    IF ~Running(s1) THEN s1 ELSE
    Then(IF s1.cur_index = 0 THEN SetCur(s1, s1.nodes[0].next) ELSE s1, LAMBDA s2 :
    Then(swap(s2, 0, Pred(s2.length)), LAMBDA s3 :
    LET fr == Pred(s3.length) IN
    Then(At(s3, fr), LAMBDA s4 :
    IF ~Running(s4) THEN s4 ELSE DecLength(reset(s4, fr))))))

\* ----------------------------------------------------- LinkedList::pop_front
pop_front(s) ==
    IF s.cur_index = npos THEN s ELSE
    Then(At(s, 0), LAMBDA s1 :
    IF ~Running(s1) THEN s1 ELSE
    Then(IF s1.cur_index = 0 THEN SetCur(s1, s1.nodes[0].next) ELSE s1, LAMBDA s2 :
    Then(swap(s2, 0, Pred(s2.length)), LAMBDA s3 :
    LET fr == Pred(s3.length) IN
    Then(At(s3, fr), LAMBDA s4 :
    IF ~Running(s4) THEN s4 ELSE
    Then(IF s4.nodes[fr].next # npos THEN swap(s4, s4.nodes[fr].next, 0) ELSE s4,
         LAMBDA s5 :
    DecLength(reset(s5, fr)))))))

\* --------------------------------------------------------- LinkedList::clear
clear(s) ==
    [s EXCEPT !.nodes = [i \in DOMAIN s.nodes |-> DefaultNode],
              !.length = 0, !.cur_index = npos]

\* -------------------------------------------------------- LinkedList::resize
RECURSIVE PushDefaults(_, _, _)
PushDefaults(s, k, ubo) ==
    IF k = 0 THEN s ELSE PushDefaults(push_back(s, 0, ubo), k - 1, ubo)

resize(s, new_size, ubo) ==
    IF new_size <= s.length THEN reserve(s, new_size)
    ELSE PushDefaults(reserve(s, new_size), new_size - s.length, ubo)

\* ------------------------------------------------- LinkedList::shrink_to_fit
shrink_to_fit(s) == reserve(s, s.length)

\* --------------------------------------- LinkedList::advance / retreat (n)
RECURSIVE advance_n(_, _)
advance_n(s, amt) ==
    IF s.cur_index = npos THEN s ELSE
    LET s1 == At(s, s.cur_index)
    IN  IF ~Running(s1) THEN s1
        ELSE IF s1.nodes[s1.cur_index].next # npos /\ amt > 0
             THEN advance_n(SetCur(s1, s1.nodes[s1.cur_index].next), amt - 1)
             ELSE s1

RECURSIVE retreat_n(_, _)
retreat_n(s, amt) ==
    IF s.cur_index = npos THEN s ELSE
    LET s1 == At(s, s.cur_index)
    IN  IF ~Running(s1) THEN s1
        ELSE IF s1.nodes[s1.cur_index].prev # npos /\ amt > 0
             THEN retreat_n(SetCur(s1, s1.nodes[s1.cur_index].prev), amt - 1)
             ELSE s1

\* ------------------------------------------- LinkedList::advance / retreat
advance(s) ==
    IF s.cur_index = npos THEN s ELSE
    LET s1 == At(s, s.cur_index)
    IN  IF ~Running(s1) THEN s1
        ELSE IF s1.nodes[s1.cur_index].next # npos
             THEN SetCur(s1, s1.nodes[s1.cur_index].next) ELSE s1

retreat(s) ==
    IF s.cur_index = npos THEN s ELSE
    LET s1 == At(s, s.cur_index)
    IN  IF ~Running(s1) THEN s1
        ELSE IF s1.nodes[s1.cur_index].prev # npos
             THEN SetCur(s1, s1.nodes[s1.cur_index].prev) ELSE s1

\* ------------------------------------------ LinkedList::to_front / to_back
to_front(s) == IF s.cur_index = npos THEN s ELSE SetCur(s, 0)

to_back(s) ==
    IF s.cur_index = npos THEN s
    ELSE IF s.length = 1 THEN s
    ELSE SetCur(s, 1)

\* ---------------------------------------------------------- LinkedList::front
\* the value returned, or threw = TRUE for the Exception
front(s) ==
    IF s.length = 0 \/ ~InBounds(s, 0) THEN [threw |-> TRUE, value |-> 0]
    ELSE [threw |-> FALSE, value |-> s.nodes[0].value]

\* ----------------------------------------------------- LinkedList::back / get
\* error is "empty" for the Exception of the empty list, "index" for the
\* Exception of Array::operator[] (index out of bounds), "none" for a value
back(s) ==
    IF s.length = 0 THEN [error |-> "empty", value |-> 0]
    ELSE LET b == IF s.length >= 2 THEN 1 ELSE 0
         IN  IF ~InBounds(s, b) THEN [error |-> "index", value |-> 0]
             ELSE [error |-> "none", value |-> s.nodes[b].value]

get(s) ==
    IF s.cur_index = npos THEN [error |-> "empty", value |-> 0]
    ELSE IF ~InBounds(s, s.cur_index) THEN [error |-> "index", value |-> 0]
    ELSE [error |-> "none", value |-> s.nodes[s.cur_index].value]

\* ------------------------------------------- LinkedList::has_next / has_prev
\* threw = TRUE for the Exception of Array::operator[]
has_next(s) ==
    IF s.cur_index = npos THEN [threw |-> FALSE, value |-> FALSE]
    ELSE IF ~InBounds(s, s.cur_index) THEN [threw |-> TRUE, value |-> FALSE]
    ELSE [threw |-> FALSE, value |-> s.nodes[s.cur_index].next # npos]

has_prev(s) ==
    IF s.cur_index = npos THEN [threw |-> FALSE, value |-> FALSE]
    ELSE IF ~InBounds(s, s.cur_index) THEN [threw |-> TRUE, value |-> FALSE]
    ELSE [threw |-> FALSE, value |-> s.nodes[s.cur_index].prev # npos]

\* ------------------------------------------------------- LinkedList::Iterator
\* for (it = begin(); it.is_valid(); ++it) collect *it.  begin() is slot 0,
\* or npos when empty() (cur_index == npos); operator* and operator++ index
\* nodes[node_index].  A throw ends the result with Threw, a walk longer than
\* the array (a cycle) with Loops.
Threw == 0 - 1
Loops == 0 - 2

RECURSIVE IterateFrom(_, _, _, _)
IterateFrom(s, node_index, acc, fuel) ==
    IF node_index = npos THEN acc
    ELSE IF ~InBounds(s, node_index) THEN Append(acc, Threw)
    ELSE IF fuel = 0 THEN Append(acc, Loops)
    ELSE IterateFrom(s, s.nodes[node_index].next,
                     Append(acc, s.nodes[node_index].value), fuel - 1)

Iterate(s) == IterateFrom(s, IF s.cur_index = npos THEN npos ELSE 0, <<>>, Cap(s))

\* while (l.has_next()) l.advance();  collecting the cursor before the loop
\* and after every advance: the slots visited, ended by Threw when has_next
\* throws and by Loops when the walk is longer than the array
RECURSIVE AdvanceToEnd(_, _, _)
AdvanceToEnd(s, acc, fuel) ==
    IF has_next(s).threw THEN Append(acc, Threw)
    ELSE IF ~has_next(s).value THEN acc
    ELSE IF fuel = 0 THEN Append(acc, Loops)
    ELSE AdvanceToEnd(advance(s), Append(acc, advance(s).cur_index), fuel - 1)

\* ===================================================================
\* The sequential list under any sequence of its public operations
\* ===================================================================

\* LinkedList() = default: no array, length 0, cur_index npos
EmptyList ==
    [nodes |-> [i \in {} |-> DefaultNode], length |-> 0, cur_index |-> npos,
     status |-> "ok", oob |-> FALSE]

\* the object as the next call finds it
Cur ==
    [nodes |-> nodes, length |-> length, cur_index |-> cur_index,
     status |-> "ok", oob |-> oob]

Commit(r) ==
    /\ nodes' = r.nodes
    /\ length' = r.length
    /\ cur_index' = r.cur_index
    /\ status' = r.status
    /\ oob' = r.oob

\* one call of a member function: made while the process lives (a crash
\* from an out-of-bounds write ends it), at most MaxCalls times
Call(r) ==
    /\ status # "crash"
    /\ calls < MaxCalls
    /\ Commit(r)
    /\ calls' = calls + 1
    /\ UNCHANGED <<histVars, threadVars, auxVars>>

\* LinkedList(const std::initializer_list<T>&): reserve(size), then push_back
\* of every element
RECURSIVE PushAll(_, _)
PushAll(s, elements) ==
    IF elements = <<>> THEN s
    ELSE PushAll(push_back(s, Head(elements), "crash"), Tail(elements))

FromList(elements) == PushAll(reserve(EmptyList, Len(elements)), elements)

SeqsUpTo(S, n) == UNION {[1..k -> S] : k \in 0..n}

Init ==
    /\ \E elements \in SeqsUpTo(Values, MaxInit) :
          LET l == FromList(elements) IN
          nodes = l.nodes /\ length = l.length /\ cur_index = l.cur_index
    /\ status = "ok" /\ oob = FALSE /\ calls = 0
    /\ trace = <<>> /\ pushed = <<>> /\ out = <<>>
    /\ NoThreads /\ twin = <<>>

PushBack   == \E v \in Values, ubo \in UBOutcomes : Call(push_back(Cur, v, ubo))
PushFront  == \E v \in Values, ubo \in UBOutcomes : Call(push_front(Cur, v, ubo))
PushAhead  == \E v \in Values, ubo \in UBOutcomes : Call(push_ahead(Cur, v, ubo))
PushBehind == \E v \in Values, ubo \in UBOutcomes : Call(push_behind(Cur, v, ubo))
PopBack    == Call(pop_back(Cur))
PopFront   == Call(pop_front(Cur))
PopAhead   == Call(pop_ahead(Cur))
PopBehind  == Call(pop_behind(Cur))
PopAdvance == Call(pop_advance(Cur))
PopRetreat == Call(pop_retreat(Cur))
Clear      == Call(clear(Cur))
Reserve    == \E n \in 0..MaxResize : Call(reserve(Cur, n))
Resize     == \E n \in 0..MaxResize, ubo \in UBOutcomes : Call(resize(Cur, n, ubo))
ShrinkToFit == Call(shrink_to_fit(Cur))
Advance    == Call(advance(Cur))
Retreat    == Call(retreat(Cur))
AdvanceN   == \E n \in 0..MaxStep : Call(advance_n(Cur, n))
RetreatN   == \E n \in 0..MaxStep : Call(retreat_n(Cur, n))
ToFront    == Call(to_front(Cur))
ToBack     == Call(to_back(Cur))

Next ==
    \/ PushBack \/ PushFront \/ PushAhead \/ PushBehind
    \/ PopBack \/ PopFront \/ PopAhead \/ PopBehind \/ PopAdvance \/ PopRetreat
    \/ Clear \/ Reserve \/ Resize \/ ShrinkToFit
    \/ Advance \/ Retreat \/ AdvanceN \/ RetreatN \/ ToFront \/ ToBack

Spec == Init /\ [][Next]_vars

\* ===================================================================
\* Structural invariants of the list (Spec)
\* ===================================================================

\* the slots met by following next from slot i, and whether the walk ends
\* at npos without leaving the array or meeting a slot twice
RECURSIVE Walk(_, _, _)
Walk(s, i, seen) ==
    IF i = npos THEN [path |-> seen, ends |-> TRUE]
    ELSE IF ~InBounds(s, i) \/ (\E k \in 1..Len(seen) : seen[k] = i)
         THEN [path |-> seen, ends |-> FALSE]
    ELSE Walk(s, s.nodes[i].next, Append(seen, i))

\* C1: after every operation (on a list no call has written out of bounds
\* of), a list with length >= 1 has its logical head in slot 0, and the prev
\* link of slot 0 is npos.
C1_HeadAtZero ==
    (~oob /\ length >= 1) =>
        (InBounds(Cur, 0) /\ nodes[0].prev = npos)

\* C2: after every operation, a list with length >= 2 has its logical tail in
\* slot 1 with next = npos, and a list with length 1 has its only node in
\* slot 0 with prev = next = npos.
C2_TailAtOne ==
    ~oob =>
        /\ length >= 2 => (InBounds(Cur, 1) /\ nodes[1].next = npos)
        /\ length = 1 =>
              (InBounds(Cur, 0) /\ nodes[0].prev = npos /\ nodes[0].next = npos)

\* C3: after every operation, following next from slot 0 visits exactly
\* length distinct slots, all below length, and then reaches npos.
C3_OneChain ==
    (~oob /\ length >= 1) =>
        LET w == Walk(Cur, 0, <<>>) IN
        /\ w.ends
        /\ Len(w.path) = length
        /\ \A k \in 1..Len(w.path) : w.path[k] < length

\* ===================================================================
\* push N values at one end, then read front() and pop_front N times
\* ===================================================================

InitEmpty ==
    /\ nodes = EmptyList.nodes /\ length = 0 /\ cur_index = npos
    /\ status = "ok" /\ oob = FALSE /\ calls = 0
    /\ trace = <<>> /\ pushed = <<>> /\ out = <<>>
    /\ NoThreads /\ twin = <<>>

\* a call of the run: the object changes, the call and its value are logged
Logged(r, name, v) ==
    /\ status # "crash"
    /\ Commit(r)
    /\ calls' = calls + 1
    /\ trace' = Append(trace, <<name, v>>)
    /\ UNCHANGED <<threadVars, auxVars>>

\* the first call of the run
First == IF trace = <<>> THEN "none" ELSE trace[1][1]

FifoPushBack ==
    \E v \in Values :
        /\ Len(pushed) < MaxFifo /\ Len(trace) = Len(pushed)
        /\ First \in {"none", "push_back"}
        /\ Logged(push_back(Cur, v, "crash"), "push_back", v)
        /\ pushed' = Append(pushed, v)
        /\ out' = out

FifoPushFront ==
    \E v \in Values :
        /\ Len(pushed) < MaxFifo /\ Len(trace) = Len(pushed)
        /\ First \in {"none", "push_front"}
        /\ Logged(push_front(Cur, v, "crash"), "push_front", v)
        /\ pushed' = Append(pushed, v)
        /\ out' = out

\* x = list.front(); list.pop_front();
FifoPopFront ==
    /\ Len(out) < Len(pushed)
    /\ LET f == front(Cur) IN
       /\ out' = Append(out, IF f.threw THEN Threw ELSE f.value)
       /\ Logged(IF f.threw THEN [Cur EXCEPT !.status = "throw"] ELSE pop_front(Cur),
                 "pop_front", 0)
    /\ pushed' = pushed

NextFifo == FifoPushBack \/ FifoPushFront \/ FifoPopFront

SpecFifo == InitEmpty /\ [][NextFifo]_vars

Reverse(q) == [k \in 1..Len(q) |-> q[Len(q) + 1 - k]]

\* C4: after N push_back (push_front) calls and k <= N front()/pop_front()
\* pairs, the values read are the first k values pushed, in the order pushed
\* (in the reverse order for push_front); no call fails, and after the N-th
\* pop the list is empty.
C4_FifoLifo ==
    LET expect == IF First = "push_front" THEN Reverse(pushed) ELSE pushed
    IN  /\ status = "ok" /\ ~oob
        /\ out = SubSeq(expect, 1, Len(out))
        /\ length = Len(pushed) - Len(out)
        /\ Len(out) = Len(pushed) => cur_index = npos

\* three or more values pushed at the front, with two distinct values among
\* them, and all of them popped again
C4_Witness ==
    /\ Len(pushed) >= 3 /\ Len(out) = Len(pushed)
    /\ First = "push_front"
    /\ pushed[1] # pushed[Len(pushed)]

\* ===================================================================
\* Scenario runs: any MaxTrace calls of push_back, push_front, pop_back and
\* pop_front on an empty list, with the calls logged in trace
\* ===================================================================

ScenarioValues == {0, 1, 2}

ScPushBack ==
    \E v \in ScenarioValues :
        /\ Len(trace) < MaxTrace
        /\ Logged(push_back(Cur, v, "crash"), "push_back", v)
        /\ UNCHANGED <<pushed, out>>

ScPushFront ==
    \E v \in ScenarioValues :
        /\ Len(trace) < MaxTrace
        /\ Logged(push_front(Cur, v, "crash"), "push_front", v)
        /\ UNCHANGED <<pushed, out>>

ScPopBack ==
    /\ Len(trace) < MaxTrace
    /\ Logged(pop_back(Cur), "pop_back", 0)
    /\ UNCHANGED <<pushed, out>>

ScPopFront ==
    /\ Len(trace) < MaxTrace
    /\ Logged(pop_front(Cur), "pop_front", 0)
    /\ UNCHANGED <<pushed, out>>

NextScenario == ScPushBack \/ ScPushFront \/ ScPopBack \/ ScPopFront

SpecScenario == InitEmpty /\ [][NextScenario]_vars

Scenario3 == << <<"push_back", 1>>, <<"push_back", 2>>, <<"push_front", 0>> >>
Scenario4 == Append(Scenario3, <<"pop_back", 0>>)
Scenario5 == Append(Scenario4, <<"pop_front", 0>>)

\* C5: after push_back(1), push_back(2), push_front(0) on an empty list the
\* iteration from begin() yields 0, 1, 2; after a following pop_back() it
\* yields 0, 1; after a following pop_front() it yields 1.
C5_Scenario ==
    /\ trace = Scenario3 => Iterate(Cur) = <<0, 1, 2>>
    /\ trace = Scenario4 => Iterate(Cur) = <<0, 1>>
    /\ trace = Scenario5 => Iterate(Cur) = <<1>>

\* ===================================================================
\* AtomicQueue (threading.hpp)
\* ===================================================================

\* AtomicQueue() = default: no array, length 0, cur_index{} is 0
EmptyQueue ==
    [nodes |-> [i \in {} |-> DefaultNode], length |-> 0, cur_index |-> 0,
     status |-> "ok", oob |-> FALSE]

\* AtomicQueue::swap: statement for statement LinkedList::swap
AQ_swap(s, i1, i2) == swap(s, i1, i2)

\* AtomicQueue::_reserve: a new Array<Node>(new_size), the first
\* min(size, new_size) nodes moved into it, length = min(new_size, length)
AQ_reserve(s, new_size) ==
    IF ~Running(s) THEN s
    ELSE IF new_size > npos \div 2 THEN [s EXCEPT !.status = "throw"]
    ELSE
    [s EXCEPT !.nodes  = [i \in 0..(new_size - 1) |->
                             IF i \in DOMAIN s.nodes THEN s.nodes[i] ELSE DefaultNode],
              !.length = Min(new_size, s.length)]

\* AtomicQueue::push_back between taking and releasing modifying_flag
AQ_push_back(s, value, ubo) ==
    Then(IF s.length = Cap(s) THEN AQ_reserve(s, Cap(s) * 2 + 1) ELSE s, LAMBDA s1 :
    LET back_ind == IF s1.length > 0 THEN (IF s1.length >= 2 THEN 1 ELSE 0) ELSE npos
    IN
    Then(emplace_at([s1 EXCEPT !.length = Succ(@)], s1.length,
                    MkNode(TRUE, value, back_ind, npos), ubo), LAMBDA s2 :
    Then(IF back_ind # npos THEN SetNext(s2, back_ind, Pred(s2.length)) ELSE s2, LAMBDA s3 :
    Then(IF s3.length > 2 THEN AQ_swap(s3, 1, Pred(s3.length)) ELSE s3, LAMBDA s4 :
    IF s4.cur_index = npos THEN SetCur(s4, 0) ELSE s4))))

\* AtomicQueue::try_pop_front between taking and releasing modifying_flag:
\* the queue after it, whether it returns true, and the value it hands out
AQ_try_pop_front_unchecked(s) ==
    Then(At(s, 0), LAMBDA s1 :
    IF ~Running(s1) THEN [q |-> s1, popped |-> FALSE, res |-> 0] ELSE
    LET res == s1.nodes[0].value IN
    Then(IF s1.cur_index = 0 THEN SetCur(s1, s1.nodes[0].next) ELSE s1, LAMBDA s2 :
    Then(AQ_swap(s2, 0, Pred(s2.length)), LAMBDA s3 :
    LET fr == Pred(s3.length) IN
    Then(At(s3, fr), LAMBDA s4 :
    Then(IF Running(s4) /\ s4.nodes[fr].next # npos
         THEN AQ_swap(s4, s4.nodes[fr].next, 0) ELSE s4, LAMBDA s5 :
    Then(DecLength(reset(s5, fr)), LAMBDA s6 :
    [q |-> s6, popped |-> Running(s6), res |-> res]))))))

AQ_try_pop_front(s) ==
    IF s.length = 0 THEN [q |-> s, popped |-> FALSE, res |-> 0] ELSE
    Then(At(s, 0), LAMBDA s1 :
    IF ~Running(s1) THEN [q |-> s1, popped |-> FALSE, res |-> 0] ELSE
    LET res == s1.nodes[0].value IN
    Then(IF s1.cur_index = 0 THEN SetCur(s1, s1.nodes[0].next) ELSE s1, LAMBDA s2 :
    Then(AQ_swap(s2, 0, Pred(s2.length)), LAMBDA s3 :
    LET fr == Pred(s3.length) IN
    Then(At(s3, fr), LAMBDA s4 :
    Then(IF Running(s4) /\ s4.nodes[fr].next # npos
         THEN AQ_swap(s4, s4.nodes[fr].next, 0) ELSE s4, LAMBDA s5 :
    Then(DecLength(reset(s5, fr)), LAMBDA s6 :
    [q |-> s6, popped |-> Running(s6), res |-> res]))))))

\* while (modifying_flag._bool.exchange(true)) spin: thread t goes on to
\* location "to" when the exchange returns false
Acquire_unguarded(t, to) ==
    /\ status # "crash"
    /\ modifying_flag' = TRUE
    /\ pc' = [pc EXCEPT ![t] = to]

Acquire(t, to) ==
    /\ status # "crash"
    /\ modifying_flag = FALSE
    /\ modifying_flag' = TRUE
    /\ pc' = [pc EXCEPT ![t] = to]

\* the end of a critical section that left the queue as r: the store of
\* false into modifying_flag is reached unless an exception left the function
Release(r) ==
    /\ Commit(r)
    /\ modifying_flag' = (r.status # "ok")

\* ===================================================================
\* P producers and C consumers on one AtomicQueue
\* ===================================================================

Producers == {<<"producer", i>> : i \in 1..NumProducers}
Consumers == {<<"consumer", i>> : i \in 1..NumConsumers}

\* the k-th value producer p pushes: all distinct, none equal to T()
ValueOf(p, k) == (p[2] - 1) * PerProducer + k

InitQueue ==
    /\ nodes = EmptyQueue.nodes /\ length = 0 /\ cur_index = 0
    /\ status = "ok" /\ oob = FALSE /\ calls = 0
    /\ trace = <<>> /\ pushed = <<>> /\ out = <<>>
    /\ modifying_flag = FALSE /\ failsafe = TRUE /\ running = <<>>
    /\ pc = [t \in Producers \cup Consumers |-> IF t \in Producers THEN "push" ELSE "pop"]
    /\ local = [t \in Producers \cup Consumers |-> 0]
    /\ ran = <<>> /\ ghost = <<>> /\ future = <<>> /\ twin = <<>>

\* producer p enters push_back
ProducerLock(p) ==
    /\ pc[p] = "push"
    /\ Acquire(p, "push_cs")
    /\ UNCHANGED <<listVars, histVars, failsafe, running, local, ran, ghost, auxVars>>

\* producer p, holding the flag, runs push_back to its return
ProducerPush(p) ==
    /\ pc[p] = "push_cs" /\ status # "crash"
    /\ \E ubo \in UBOutcomes :
          LET v == ValueOf(p, local[p] + 1)
              r == AQ_push_back(Cur, v, ubo)
          IN  /\ Release(r)
              /\ pushed' = Append(pushed, v)
              /\ local' = [local EXCEPT ![p] = @ + 1]
              /\ pc' = [pc EXCEPT ![p] = IF r.status # "ok" THEN "threw"
                                         ELSE IF local[p] + 1 = PerProducer THEN "done"
                                         ELSE "push"]
    /\ UNCHANGED <<calls, trace, out, failsafe, running, ran, ghost, auxVars>>

\* consumer c enters try_pop_front
ConsumerLock(c) ==
    /\ pc[c] \in {"pop", "empty"}
    /\ Acquire(c, "pop_cs")
    /\ UNCHANGED <<listVars, histVars, failsafe, running, local, ran, ghost, auxVars>>

\* consumer c, holding the flag, runs try_pop_front to its return
\* ("empty": the call returned false, "pop": it returned true)
ConsumerPop(c) ==
    /\ pc[c] = "pop_cs" /\ status # "crash"
    /\ LET r == AQ_try_pop_front(Cur)
       IN  /\ Release(r.q)
           /\ out' = IF r.popped THEN Append(out, r.res) ELSE out
           /\ local' = [local EXCEPT ![c] = IF r.popped THEN r.res ELSE @]
           /\ pc' = [pc EXCEPT ![c] = IF r.q.status # "ok" THEN "threw"
                                      ELSE IF r.popped THEN "pop" ELSE "empty"]
    /\ UNCHANGED <<calls, trace, pushed, failsafe, running, ran, ghost, auxVars>>

NextQueue ==
    \/ \E p \in Producers : ProducerLock(p) \/ ProducerPush(p)
    \/ \E c \in Consumers : ConsumerLock(c) \/ ConsumerPop(c)

SpecQueue == InitQueue /\ [][NextQueue]_vars

\* the values of sequence q
Range(q) == {q[k] : k \in 1..Len(q)}

\* C6: in every interleaving of the producers and the consumers no value is
\* returned twice, every value returned was pushed, and once every producer
\* has pushed its M values and the queue is empty, every value pushed has
\* been returned.
C6_NoLossNoDuplication ==
    /\ \A i, j \in 1..Len(out) : i # j => out[i] # out[j]
    /\ Range(out) \subseteq Range(pushed)
    /\ ((\A p \in Producers : pc[p] = "done") /\ length = 0)
          => Range(pushed) \subseteq Range(out)

\* C7: with pushes and pops interleaved, the values handed out by the
\* successful try_pop_front calls are, in the order of the calls, the values
\* pushed, in the order they were pushed.
C7_OldestFirst == out = SubSeq(pushed, 1, Len(out))

\* ===================================================================
\* Executor (threading.hpp): NumThreads workers, the thread that owns the
\* pool (execute, wait, then the destructor) and a second thread that
\* calls execute on it
\* ===================================================================

Workers == {<<"worker", i>> : i \in 1..NumThreads}
Main    == <<"main", 0>>
Client  == <<"client", 0>>
Submitters == {Main, Client}

\* the tasks pushed and not yet popped
InQueue == Range(pushed) \ Range(out)

\* the workers that hold a popped task they have not finished
\* Executor::threads: the workers started
Threads == DOMAIN running

Busy == {w \in Threads : pc[w] \in {"flag_on", "task"}}

\* init_threads(n): throws for n == 0, else starts n workers in run()
init_threads_unchecked(n) ==
    [threw |-> FALSE, threads |-> {w \in Workers : w[2] <= n}]

init_threads(n) ==
    IF n = 0 THEN [threw |-> TRUE, threads |-> {}]
    ELSE [threw |-> FALSE, threads |-> {w \in Workers : w[2] <= n}]

\* Executor(num_threads): the constructor returns with the workers started,
\* or throws, and then there is no pool for a thread to call ("no_pool")
InitExec ==
    /\ nodes = EmptyQueue.nodes /\ length = 0 /\ cur_index = 0
    /\ oob = FALSE /\ calls = 0
    /\ trace = <<>> /\ pushed = <<>> /\ out = <<>>
    /\ modifying_flag = FALSE /\ failsafe = TRUE
    /\ \E num_threads \in 0..NumThreads :
          LET r == init_threads(num_threads)
          IN  /\ status = IF r.threw THEN "throw" ELSE "ok"
              /\ running = [w \in r.threads |-> FALSE]
              /\ pc = [t \in r.threads \cup Submitters |->
                          IF t \in r.threads THEN "loop"
                          ELSE IF r.threw THEN "no_pool" ELSE "idle"]
              /\ local = [t \in r.threads \cup Submitters |-> 0]
    /\ ran = <<>> /\ future = <<>> /\ twin = <<>>
    /\ ghost = [started |-> 0, returned |-> {}, late |-> {},
                waited |-> FALSE, wait_before |-> {}, wait_missed |-> {},
                at_shutdown |-> {}, left_behind |-> {},
                joined |-> FALSE, dtor_missed |-> {}]

\* the tasks submitted whose function throws
Failing == {task \in DOMAIN future : task < 0}

\* execute(): throws when threads.size() is 0; else the function is wrapped in
\* a packaged_task, its future is taken, and push_back takes the flag.  The
\* task is numbered by the order of the calls; the number of a task whose
\* function throws is negated.
ExecuteLockWithin(t, limit) ==
    /\ pc[t] = "idle" /\ pc[Main] # "destroyed"
    /\ ghost.started < limit
    /\ IF Threads = {}
       THEN /\ status # "crash"
            /\ status' = "throw"
            /\ pc' = [pc EXCEPT ![t] = "threw"]
            /\ UNCHANGED <<nodes, length, cur_index, oob, calls, histVars, modifying_flag,
                           failsafe, running, local, ran, ghost, auxVars>>
       ELSE /\ Acquire(t, "execute_cs")
            /\ \E throws \in BOOLEAN :
                  LET task == IF throws THEN 0 - (ghost.started + 1) ELSE ghost.started + 1
                  IN  /\ throws => Cardinality(Failing) < MaxFailing
                      /\ local' = [local EXCEPT ![t] = task]
                      /\ future' = (task :> "pending") @@ future
                      /\ ghost' = [ghost EXCEPT !.started = @ + 1,
                                                !.late = IF failsafe THEN @ ELSE @ \cup {task}]
            /\ UNCHANGED <<listVars, histVars, failsafe, running, ran, twin>>

ExecuteLock(t) == ExecuteLockWithin(t, MaxTasks)

\* execute(): tasks.push_back(closure) to its return, then return fut
ExecutePush(t) ==
    /\ pc[t] = "execute_cs" /\ status # "crash"
    /\ \E ubo \in UBOutcomes :
          LET r == AQ_push_back(Cur, local[t], ubo)
          IN  /\ Release(r)
              /\ pc' = [pc EXCEPT ![t] = IF r.status # "ok" THEN "threw" ELSE "idle"]
              /\ ghost' = [ghost EXCEPT !.returned =
                                IF r.status # "ok" THEN @ ELSE @ \cup {local[t]}]
    /\ pushed' = Append(pushed, local[t])
    /\ UNCHANGED <<calls, trace, out, failsafe, running, local, ran, auxVars>>

\* wait() is called: the scan of the running flags starts at the first worker
WaitCall ==
    /\ pc[Main] = "idle" /\ status # "crash" /\ ~ghost.waited
    /\ pc' = [pc EXCEPT ![Main] = "wait"]
    /\ local' = [local EXCEPT ![Main] = 1]
    /\ ghost' = [ghost EXCEPT !.wait_before = ghost.returned]
    /\ UNCHANGED <<listVars, histVars, modifying_flag, failsafe, running, ran, auxVars>>

\* wait(): one load of a running flag.  A flag that is set ends the scan
\* with ready = false and the loop scans again from the first worker; a scan
\* that meets no set flag leaves ready = true and wait() returns.
WaitLoad ==
    /\ pc[Main] = "wait" /\ status # "crash"
    /\ IF running[<<"worker", local[Main]>>]
       THEN /\ local' = [local EXCEPT ![Main] = 1]
            /\ UNCHANGED <<pc, ghost>>
       ELSE IF local[Main] < Cardinality(Threads)
       THEN /\ local' = [local EXCEPT ![Main] = @ + 1]
            /\ UNCHANGED <<pc, ghost>>
       ELSE /\ pc' = [pc EXCEPT ![Main] = "idle"]
            /\ local' = [local EXCEPT ![Main] = 0]
            /\ ghost' = [ghost EXCEPT !.waited = TRUE,
                                      !.wait_missed = ghost.wait_before \ Range(ran)]
    /\ UNCHANGED <<listVars, histVars, modifying_flag, failsafe, running, ran, auxVars>>

\* ~Executor(): failsafe->store(false)
Shutdown ==
    /\ pc[Main] = "idle" /\ status # "crash"
    /\ failsafe' = FALSE
    /\ pc' = [pc EXCEPT ![Main] = "join"]
    /\ local' = [local EXCEPT ![Main] = 1]
    /\ ghost' = [ghost EXCEPT !.at_shutdown = InQueue]
    /\ UNCHANGED <<listVars, histVars, modifying_flag, running, ran, auxVars>>

\* ~Executor(): threads[i].first.join() returns once worker i has left run();
\* after the last join the destructor returns
Join ==
    /\ pc[Main] = "join" /\ status # "crash"
    /\ pc[<<"worker", local[Main]>>] = "exited"
    /\ IF local[Main] < Cardinality(Threads)
       THEN /\ local' = [local EXCEPT ![Main] = @ + 1]
            /\ UNCHANGED <<pc, ghost>>
       ELSE /\ pc' = [pc EXCEPT ![Main] = "destroyed"]
            /\ local' = [local EXCEPT ![Main] = 0]
            /\ ghost' = [ghost EXCEPT !.joined = TRUE,
                                      !.dtor_missed = ghost.at_shutdown \ Range(ran)]
    /\ UNCHANGED <<listVars, histVars, modifying_flag, failsafe, running, ran, auxVars>>

\* run(): while (failsafe->load())
WorkerLoop(w) ==
    /\ pc[w] = "loop" /\ status # "crash"
    /\ pc' = [pc EXCEPT ![w] = IF failsafe THEN "try" ELSE "exited"]
    /\ ghost' = [ghost EXCEPT !.left_behind = IF failsafe THEN @ ELSE @ \cup InQueue]
    /\ UNCHANGED <<listVars, histVars, modifying_flag, failsafe, running, local, ran, auxVars>>

\* run(): tasks.try_pop_front(task) takes the flag, in the if ("try") or in
\* the condition of the do-while ("again")
WorkerLock(w) ==
    /\ pc[w] \in {"try", "again"}
    /\ Acquire(w, IF pc[w] = "try" THEN "try_cs" ELSE "again_cs")
    /\ UNCHANGED <<listVars, histVars, failsafe, running, local, ran, ghost, auxVars>>

\* run(): try_pop_front to its return.  true: the if goes on to set the
\* running flag, the do-while runs the task popped; false: the if falls
\* through to the loop condition, the do-while ends.  An exception leaving
\* run() ends the process (std::terminate).
WorkerPop(w) ==
    /\ pc[w] \in {"try_cs", "again_cs"} /\ status # "crash"
    /\ LET r == AQ_try_pop_front(Cur)
       IN  /\ Release(IF r.q.status = "ok" THEN r.q ELSE [r.q EXCEPT !.status = "crash"])
           /\ out' = IF r.popped THEN Append(out, r.res) ELSE out
           /\ local' = [local EXCEPT ![w] = IF r.popped THEN r.res ELSE @]
           /\ pc' = [pc EXCEPT ![w] =
                         IF r.q.status # "ok" THEN "terminated"
                         ELSE IF pc[w] = "try_cs"
                              THEN (IF r.popped THEN "flag_on" ELSE "loop")
                              ELSE (IF r.popped THEN "task" ELSE "flag_off")]
    /\ UNCHANGED <<calls, trace, pushed, failsafe, running, ran, ghost, auxVars>>

\* run(): threads[ind].second->_bool.store(true)
WorkerFlagOn(w) ==
    /\ pc[w] = "flag_on" /\ status # "crash"
    /\ running' = [running EXCEPT ![w] = TRUE]
    /\ pc' = [pc EXCEPT ![w] = "task"]
    /\ UNCHANGED <<listVars, histVars, modifying_flag, failsafe, local, ran, ghost, auxVars>>

\* run(): task() with the function called directly: what it throws leaves
\* run()
WorkerTask_unwrapped(w) ==
    /\ pc[w] = "task" /\ status # "crash"
    /\ IF local[w] <= 0
       THEN /\ status' = "crash"
            /\ pc' = [pc EXCEPT ![w] = "terminated"]
            /\ UNCHANGED <<ran, future>>
       ELSE /\ status' = status
            /\ pc' = [pc EXCEPT ![w] = "again"]
            /\ ran' = Append(ran, local[w])
            /\ future' = [future EXCEPT ![local[w]] = "value"]
    /\ UNCHANGED <<nodes, length, cur_index, oob, calls, histVars,
                   modifying_flag, failsafe, running, local, ghost, twin>>

\* run(): task().  The closure calls the packaged_task, which stores the
\* value or the exception of the function in the shared state of the future
\* and returns.  A popped T() value is an empty std::function: calling it
\* throws std::bad_function_call out of run(), and a packaged_task called a
\* second time throws std::future_error out of run(): std::terminate.
WorkerTask(w) ==
    /\ pc[w] = "task" /\ status # "crash"
    /\ IF local[w] = 0 \/ future[local[w]] # "pending"
       THEN /\ status' = "crash"
            /\ pc' = [pc EXCEPT ![w] = "terminated"]
            /\ UNCHANGED <<ran, future>>
       ELSE /\ status' = status
            /\ pc' = [pc EXCEPT ![w] = "again"]
            /\ ran' = Append(ran, local[w])
            /\ future' = [future EXCEPT ![local[w]] =
                              IF local[w] < 0 THEN "exception" ELSE "value"]
    /\ UNCHANGED <<nodes, length, cur_index, oob, calls, histVars,
                   modifying_flag, failsafe, running, local, ghost, twin>>

\* run(): threads[ind].second->_bool.store(false)
WorkerFlagOff(w) ==
    /\ pc[w] = "flag_off" /\ status # "crash"
    /\ running' = [running EXCEPT ![w] = FALSE]
    /\ pc' = [pc EXCEPT ![w] = "loop"]
    /\ UNCHANGED <<listVars, histVars, modifying_flag, failsafe, local, ran, ghost, auxVars>>

NextExec ==
    \/ \E t \in Submitters : ExecuteLock(t) \/ ExecutePush(t)
    \/ WaitCall \/ WaitLoad \/ Shutdown \/ Join
    \/ \E w \in Threads :
          \/ WorkerLoop(w) \/ WorkerLock(w) \/ WorkerPop(w)
          \/ WorkerFlagOn(w) \/ WorkerTask(w) \/ WorkerFlagOff(w)

SpecExec == InitExec /\ [][NextExec]_vars

\* C8: when wait() returns, every task whose execute() call returned before
\* wait() was called has completed (none of them is still in the queue or
\* being run).
C8_WaitDrains == ghost.waited => ghost.wait_missed = {}

\* C9: when the destructor returns, every task that was in the queue when it
\* cleared failsafe has been run, and no worker has left its loop while a
\* task was in the queue.
C9_GracefulShutdown ==
    /\ ghost.joined => ghost.dtor_missed = {}
    /\ ghost.left_behind = {}

\* C10: a task whose execute() call is made after the destructor cleared
\* failsafe is never put into the queue and never run.
C10_RejectedAfterShutdown ==
    \A t \in ghost.late : t \notin Range(pushed) /\ t \notin Range(ran)

\* C11: a task whose function throws has, once run, the exception in its
\* future, and the worker that popped it is never terminated by it: once past
\* the call it is at the condition of its do-while (the next try_pop_front)
\* or beyond, with the exception stored.
C11_TaskFailureContained ==
    /\ \A task \in Range(ran) : task < 0 => future[task] = "exception"
    /\ \A w \in Threads :
          local[w] < 0 =>
              /\ pc[w] # "terminated"
              /\ pc[w] \notin {"flag_on", "task"} => future[local[w]] = "exception"

\* a task that threw has been run, and a task submitted after it has been
\* run after it
C11_Witness ==
    \E i, j \in 1..Len(ran) :
        /\ i < j /\ ran[i] < 0 /\ future[ran[i]] = "exception"
        /\ ran[j] > 0 - ran[i] /\ future[ran[j]] = "value"

\* C12: after every operation (on a list no call has written out of bounds
\* of), if length is 0 then cur_index is npos.
C12_EmptyHasNoCursor == (~oob /\ length = 0) => cur_index = npos

\* C13: after every operation (on a list no call has written out of bounds
\* of), every slot with index below length is a slot of the array, has
\* valid = TRUE and holds a value that was pushed.
C13_SlotsBelowLengthValid ==
    ~oob =>
        \A i \in 0..(length - 1) :
            InBounds(Cur, i) /\ nodes[i].valid /\ nodes[i].value \in Values \cup {0}


\* C14: on an empty list (length 0) front(), back() and get() fail with the
\* error of the empty container, and pop_back, pop_front, pop_ahead,
\* pop_behind, pop_advance, pop_retreat, advance, retreat, to_front and
\* to_back return without error and leave length, cursor and slots unchanged
C14_EmptyListOps ==
    (~oob /\ length = 0) =>
        /\ front(Cur).threw
        /\ back(Cur).error = "empty"
        /\ get(Cur).error = "empty"
        /\ \A r \in {pop_back(Cur), pop_front(Cur), pop_ahead(Cur), pop_behind(Cur),
                      pop_advance(Cur), pop_retreat(Cur), advance(Cur), retreat(Cur),
                      to_front(Cur), to_back(Cur)} : r = Cur

\* the same restricted to the empty lists whose cursor is npos
C14_EmptyListOpsNoCursor ==
    (~oob /\ length = 0 /\ cur_index = npos) =>
        /\ front(Cur).threw
        /\ back(Cur).error = "empty"
        /\ get(Cur).error = "empty"
        /\ \A r \in {pop_back(Cur), pop_front(Cur), pop_ahead(Cur), pop_behind(Cur),
                      pop_advance(Cur), pop_retreat(Cur), advance(Cur), retreat(Cur),
                      to_front(Cur), to_back(Cur)} : r = Cur


\* the slots the cursor visits in  to_front(); while (has_next()) advance();
Visited == AdvanceToEnd(to_front(Cur), <<to_front(Cur).cur_index>>, Cap(Cur))

\* C15: in every state of the list, (a) when the cursor node has a successor
\* and a predecessor, advance() then retreat() leaves the cursor on the same
\* node, and (b) on a list that is not empty, to_front() followed by advance()
\* until has_next() is false takes exactly length - 1 steps and visits every
\* element (the slots below length) exactly once, each one the successor of
\* the one before and the predecessor of the one after
C15_CursorRoundTrip ==
    ~oob =>
        /\ (has_next(Cur).value /\ has_prev(Cur).value) =>
               retreat(advance(Cur)).cur_index = cur_index
        /\ (length > 0 /\ cur_index # npos) =>
               /\ Len(Visited) = length
               /\ {Visited[k] : k \in 1..Len(Visited)} = 0..(length - 1)
               /\ \A k \in 1..(Len(Visited) - 1) :
                      nodes[Visited[k + 1]].prev = Visited[k]

\* part (a) alone
C15_AdvanceRetreat ==
    (~oob /\ has_next(Cur).value /\ has_prev(Cur).value) =>
        retreat(advance(Cur)).cur_index = cur_index


\* ===================================================================
\* Two lists given the same calls: one starts with no array and grows on
\* demand, the other (twin) had reserve(MaxGrow) called before the first call
\* ===================================================================
TwinCur == [twin EXCEPT !.status = "ok"]

InitGrowth ==
    /\ nodes = EmptyList.nodes /\ length = 0 /\ cur_index = npos
    /\ status = "ok" /\ oob = FALSE /\ calls = 0
    /\ trace = <<>> /\ pushed = <<>> /\ out = <<>>
    /\ NoThreads
    /\ twin = reserve(EmptyList, MaxGrow)

\* the same call made on both lists, while both processes live
Both(r, t) ==
    /\ status # "crash" /\ twin.status # "crash"
    /\ calls < MaxGrow
    /\ Commit(r)
    /\ twin' = t
    /\ calls' = calls + 1
    /\ UNCHANGED <<histVars, threadVars, future>>

GrowPushBack ==
    \E v \in Values, ubo \in UBOutcomes, ubt \in UBOutcomes :
        Both(push_back(Cur, v, ubo), push_back(TwinCur, v, ubt))
GrowPushFront ==
    \E v \in Values, ubo \in UBOutcomes, ubt \in UBOutcomes :
        Both(push_front(Cur, v, ubo), push_front(TwinCur, v, ubt))
GrowPushAhead ==
    \E v \in Values, ubo \in UBOutcomes, ubt \in UBOutcomes :
        Both(push_ahead(Cur, v, ubo), push_ahead(TwinCur, v, ubt))
GrowPushBehind ==
    \E v \in Values, ubo \in UBOutcomes, ubt \in UBOutcomes :
        Both(push_behind(Cur, v, ubo), push_behind(TwinCur, v, ubt))
GrowPopBack    == Both(pop_back(Cur), pop_back(TwinCur))
GrowPopFront   == Both(pop_front(Cur), pop_front(TwinCur))
GrowPopAhead   == Both(pop_ahead(Cur), pop_ahead(TwinCur))
GrowPopBehind  == Both(pop_behind(Cur), pop_behind(TwinCur))
GrowPopAdvance == Both(pop_advance(Cur), pop_advance(TwinCur))
GrowPopRetreat == Both(pop_retreat(Cur), pop_retreat(TwinCur))
GrowAdvance    == Both(advance(Cur), advance(TwinCur))
GrowRetreat    == Both(retreat(Cur), retreat(TwinCur))
GrowToFront    == Both(to_front(Cur), to_front(TwinCur))
GrowToBack     == Both(to_back(Cur), to_back(TwinCur))

NextGrowth ==
    \/ GrowPushBack \/ GrowPushFront \/ GrowPushAhead \/ GrowPushBehind
    \/ GrowPopBack \/ GrowPopFront \/ GrowPopAhead \/ GrowPopBehind
    \/ GrowPopAdvance \/ GrowPopRetreat
    \/ GrowAdvance \/ GrowRetreat \/ GrowToFront \/ GrowToBack

SpecGrowth == InitGrowth /\ [][NextGrowth]_vars

\* the place of the cursor in the walk from slot 0 along the next links
\* (0: not on the walk, or no cursor)
CursorRank(s) ==
    LET path == Walk(s, 0, <<>>).path
    IN  IF \E k \in 1..Len(path) : path[k] = s.cur_index
        THEN CHOOSE k \in 1..Len(path) : path[k] = s.cur_index
        ELSE 0

\* the values an iteration from begin() shows, up to the first slot it shows
\* twice or the first index outside the array (ends = FALSE in both cases)
Shown(s) ==
    IF s.cur_index = npos THEN [values |-> <<>>, ends |-> TRUE]
    ELSE LET w == Walk(s, 0, <<>>)
         IN  [values |-> [k \in 1..Len(w.path) |-> s.nodes[w.path[k]].value],
              ends |-> w.ends]

\* the two lists show the same: values in order, node of the cursor, outcome
SameBehaviour ==
    /\ status = twin.status
    /\ oob = twin.oob
    /\ status = "ok" =>
           /\ length = twin.length
           /\ (cur_index = npos) = (twin.cur_index = npos)
           /\ Shown(Cur) = Shown(TwinCur)
           /\ CursorRank(Cur) = CursorRank(TwinCur)

\* C16: after every call of a sequence of pushes, pops and cursor moves, the
\* list that started with capacity 0 and the list reserved in advance hold
\* the same values in the same order, have the cursor on the same logical
\* node and ended the call with the same outcome (returned, threw, wrote
\* outside its array)
C16_GrowthTransparent == SameBehaviour

\* the same as long as neither list wrote outside its array
C16_GrowthTransparentInBounds == (~oob /\ ~twin.oob) => SameBehaviour


\* ===================================================================
\* The producers and consumers, and threads that call AtomicQueue::reserve
\* ===================================================================
Reservers == {<<"reserver", i>> : i \in 1..NumReservers}
QueueThreads == Producers \cup Consumers \cup Reservers

InitLocked ==
    /\ nodes = EmptyQueue.nodes /\ length = 0 /\ cur_index = 0
    /\ status = "ok" /\ oob = FALSE /\ calls = 0
    /\ trace = <<>> /\ pushed = <<>> /\ out = <<>>
    /\ modifying_flag = FALSE /\ failsafe = TRUE /\ running = <<>>
    /\ pc = [t \in QueueThreads |-> IF t \in Producers THEN "push"
                                    ELSE IF t \in Consumers THEN "pop" ELSE "reserve"]
    /\ local = [t \in QueueThreads |-> 0]
    /\ ran = <<>> /\ ghost = <<>> /\ future = <<>> /\ twin = <<>>

\* reserver r enters reserve
ReserveLock(r) ==
    /\ pc[r] = "reserve"
    /\ Acquire(r, "reserve_cs")
    /\ UNCHANGED <<listVars, histVars, failsafe, running, local, ran, ghost, auxVars>>

\* reserver r, holding the flag, runs _reserve(new_size) and returns
ReserveBody(r) ==
    /\ pc[r] = "reserve_cs" /\ status # "crash"
    /\ \E new_size \in 0..MaxReserve :
          LET q == AQ_reserve(Cur, new_size)
          IN  /\ Release(q)
              /\ pc' = [pc EXCEPT ![r] = IF q.status # "ok" THEN "threw" ELSE "done"]
    /\ UNCHANGED <<calls, histVars, failsafe, running, local, ran, ghost, auxVars>>

NextLocked ==
    \/ NextQueue
    \/ \E r \in Reservers : ReserveLock(r) \/ ReserveBody(r)

SpecLocked == InitLocked /\ [][NextLocked]_vars

\* the threads between the exchange that took modifying_flag and its release
InCriticalSection == {t \in DOMAIN pc : pc[t] \in {"push_cs", "pop_cs", "reserve_cs"}}

\* C17: at most one thread is inside the critical section of push_back,
\* try_pop_front and reserve at any time, it holds modifying_flag, and the
\* slot array, length and cur_index change only in a step of a thread that
\* holds the flag
C17_MutualExclusion ==
    /\ [](Cardinality(InCriticalSection) <= 1
            /\ (InCriticalSection # {} => modifying_flag))
    /\ [][(nodes' # nodes \/ length' # length \/ cur_index' # cur_index)
             => (modifying_flag /\ \E t \in InCriticalSection :
                                      InCriticalSection' = InCriticalSection \ {t})]_vars

\* one thread is inside while a producer, a consumer and a reserver are at
\* the exchange, after calls of all three kinds have been made
C17_Witness ==
    /\ Cardinality(InCriticalSection) = 1 /\ modifying_flag
    /\ \E p \in Producers : pc[p] = "push"
    /\ \E c \in Consumers : pc[c] \in {"pop", "empty"}
    /\ pushed # <<>> /\ out # <<>>
    /\ \E r \in Reservers : pc[r] = "done"


\* C18: an Executor constructed with zero worker threads: the constructor
\* throws, so that no thread has a pool to call, no worker is started, and
\* no task is ever accepted (none numbered, none queued, no future made)
C18_ZeroThreadsRejected ==
    Threads = {} =>
        /\ status = "throw"
        /\ DOMAIN pc = Submitters /\ \A t \in Submitters : pc[t] = "no_pool"
        /\ ghost.started = 0 /\ pushed = <<>> /\ future = <<>> /\ ran = <<>>

C18_Witness == Threads = {} /\ status = "throw" /\ pc[Main] = "no_pool"


\* C19: a try_pop_front that finds length == 0 returns false (the consumer is
\* then at "empty") in the step after it took the flag, without waiting for
\* a value, and leaves its out argument, the values handed out, length,
\* cur_index and the slots as they were, and the flag released
C19_EmptyPopReturnsFalse ==
    /\ [](\A c \in Consumers :
            (pc[c] = "pop_cs" /\ length = 0 /\ status # "crash") => ENABLED ConsumerPop(c))
    /\ [][\A c \in Consumers :
            (pc[c] = "pop_cs" /\ length = 0 /\ pc'[c] # "pop_cs") =>
                /\ pc'[c] = "empty"
                /\ local'[c] = local[c] /\ out' = out
                /\ nodes' = nodes /\ length' = 0 /\ cur_index' = cur_index
                /\ status' = "ok"
                /\ modifying_flag /\ ~modifying_flag']_vars

\* a consumer that popped a value before was told false by its last call, and
\* still has that value in its out argument
C19_Witness ==
    \E c \in Consumers :
        /\ pc[c] = "empty" /\ local[c] # 0 /\ local[c] \in Range(out)
        /\ length = 0 /\ ~modifying_flag


\* ===================================================================
\* swap(i1, i2) applied to the lists the public operations build
\* ===================================================================

\* the list is built by at most MaxBuild calls, starting from LinkedList()
Build(r) ==
    /\ twin = <<>>
    /\ status # "crash"
    /\ calls < MaxBuild
    /\ Commit(r)
    /\ calls' = calls + 1
    /\ UNCHANGED <<histVars, threadVars, auxVars>>

BuildPushBack   == \E v \in Values, ubo \in UBOutcomes : Build(push_back(Cur, v, ubo))
BuildPushFront  == \E v \in Values, ubo \in UBOutcomes : Build(push_front(Cur, v, ubo))
BuildPushAhead  == \E v \in Values, ubo \in UBOutcomes : Build(push_ahead(Cur, v, ubo))
BuildPushBehind == \E v \in Values, ubo \in UBOutcomes : Build(push_behind(Cur, v, ubo))
BuildPopBack    == Build(pop_back(Cur))
BuildPopFront   == Build(pop_front(Cur))
BuildPopAhead   == Build(pop_ahead(Cur))
BuildPopBehind  == Build(pop_behind(Cur))
BuildPopAdvance == Build(pop_advance(Cur))
BuildPopRetreat == Build(pop_retreat(Cur))
BuildAdvance    == Build(advance(Cur))
BuildRetreat    == Build(retreat(Cur))
BuildToFront    == Build(to_front(Cur))
BuildToBack     == Build(to_back(Cur))

\* swap(i1, i2) on the list built, for a pair of indices below length: twin
\* keeps the list as it was before, trace the pair
Swap ==
    /\ twin = <<>>
    /\ status # "crash" /\ ~oob
    /\ \E i1, i2 \in 0..(length - 1) :
          /\ Commit(swap(Cur, i1, i2))
          /\ twin' = Cur
          /\ trace' = <<i1, i2>>
    /\ UNCHANGED <<calls, pushed, out, threadVars, future>>

NextSwap ==
    \/ BuildPushBack \/ BuildPushFront \/ BuildPushAhead \/ BuildPushBehind
    \/ BuildPopBack \/ BuildPopFront \/ BuildPopAhead \/ BuildPopBehind
    \/ BuildPopAdvance \/ BuildPopRetreat
    \/ BuildAdvance \/ BuildRetreat \/ BuildToFront \/ BuildToBack
    \/ Swap

SpecSwap == InitEmpty /\ [][NextSwap]_vars

\* the slots below length without predecessor / without successor
Heads(s) == {i \in 0..(s.length - 1) : InBounds(s, i) /\ s.nodes[i].prev = npos}
Tails(s) == {i \in 0..(s.length - 1) : InBounds(s, i) /\ s.nodes[i].next = npos}

\* the slots met by following prev from slot i
RECURSIVE WalkBack(_, _, _)
WalkBack(s, i, seen) ==
    IF i = npos THEN [path |-> seen, ends |-> TRUE]
    ELSE IF ~InBounds(s, i) \/ (\E k \in 1..Len(seen) : seen[k] = i)
         THEN [path |-> seen, ends |-> FALSE]
    ELSE WalkBack(s, s.nodes[i].prev, Append(seen, i))

\* the slots read by following next from the head and prev from the tail
\* (no walk when the list has not exactly one head / one tail)
Forward(s) ==
    IF Cardinality(Heads(s)) = 1
    THEN Walk(s, CHOOSE h \in Heads(s) : TRUE, <<>>)
    ELSE [path |-> <<>>, ends |-> FALSE]
Backward(s) ==
    IF Cardinality(Tails(s)) = 1
    THEN WalkBack(s, CHOOSE t \in Tails(s) : TRUE, <<>>)
    ELSE [path |-> <<>>, ends |-> FALSE]

ValuesAt(s, path) == [k \in 1..Len(path) |-> s.nodes[path[k]].value]

\* a chain: the walk from the head meets every slot below length once and
\* ends, and the walk from the tail meets the same slots in reverse
IsChain(s) ==
    /\ s.length > 0 /\ Forward(s).ends /\ Backward(s).ends
    /\ Len(Forward(s).path) = s.length
    /\ Backward(s).path = Reverse(Forward(s).path)

\* where swap(i1, i2) moves the node of slot k
Moved(k) == IF k = trace[1] THEN trace[2] ELSE IF k = trace[2] THEN trace[1] ELSE k

Swapped == twin # <<>>

SwapPreserves ==
    /\ status = "ok"
    /\ length = twin.length
    /\ Forward(Cur).ends = Forward(twin).ends
    /\ Backward(Cur).ends = Backward(twin).ends
    /\ Forward(Cur).path = [k \in 1..Len(Forward(twin).path) |-> Moved(Forward(twin).path[k])]
    /\ Backward(Cur).path = [k \in 1..Len(Backward(twin).path) |-> Moved(Backward(twin).path[k])]
    /\ ValuesAt(Cur, Forward(Cur).path) = ValuesAt(twin, Forward(twin).path)
    /\ ValuesAt(Cur, Backward(Cur).path) = ValuesAt(twin, Backward(twin).path)
    /\ cur_index = Moved(twin.cur_index)

\* C20: swap(i, j) applied to a chain, for every pair i, j < length (a node
\* and its successor, a node and its predecessor, two nodes that are not
\* neighbours, a node with itself), leaves the values read by following next
\* from the head and those read by following prev from the tail as they were
\* (the same nodes, met in the same order, at their new indices), and moves
\* a cursor that was at i or j to the new index of its node
C20_SwapPreservesChain == (Swapped /\ IsChain(twin)) => SwapPreserves

\* swap(i, j) of a node and its successor, the cursor on the first, in a
\* chain of three nodes or more
C20_Witness ==
    /\ Swapped /\ IsChain(twin) /\ twin.length >= 3
    /\ trace[1] # trace[2]
    /\ twin.nodes[trace[1]].next = trace[2]
    /\ twin.cur_index = trace[1] /\ cur_index = trace[2]
    /\ SwapPreserves

\* the other cases: a node and its predecessor, two nodes that are not
\* neighbours, a node with itself
C20_WitnessPredecessor ==
    /\ Swapped /\ IsChain(twin) /\ trace[1] # trace[2]
    /\ twin.nodes[trace[1]].prev = trace[2] /\ twin.cur_index = trace[2]
C20_WitnessApart ==
    /\ Swapped /\ IsChain(twin) /\ trace[1] # trace[2]
    /\ twin.nodes[trace[1]].prev # trace[2] /\ twin.nodes[trace[1]].next # trace[2]
C20_WitnessSame ==
    /\ Swapped /\ IsChain(twin) /\ twin.length >= 2 /\ trace[1] = trace[2]

\* the same for every list the operations build, chain or not
C20_SwapPreservesAny == Swapped => SwapPreserves


\* ===================================================================
\* What one call does to the list the calls before it left
\* ===================================================================

\* the list as the specification describes it: the slots below length are one
\* chain with its head in slot 0 and, from two nodes on, its tail in slot 1,
\* the cursor is on a node of it, and an empty list has no cursor
IsList(s) ==
    /\ ~s.oob
    /\ s.length = 0 => s.cur_index = npos
    /\ s.length > 0 =>
           /\ IsChain(s)
           /\ Forward(s).path[1] = 0
           /\ s.length >= 2 => Forward(s).path[s.length] = 1
           /\ s.cur_index # npos /\ s.cur_index < s.length

\* push_back(v) / push_front(v) did what is claimed to the list before
PushedBack(before, after, v) ==
    /\ after.status = "ok" /\ ~after.oob
    /\ Iterate(after) = Append(Iterate(before), v)
    /\ after.length = before.length + 1
    /\ after.cur_index # npos
    /\ CursorRank(after) = IF before.cur_index = npos THEN after.length
                           ELSE CursorRank(before)
    /\ CursorRank(after) # 0

PushedFront(before, after, v) ==
    /\ after.status = "ok" /\ ~after.oob
    /\ Iterate(after) = <<v>> \o Iterate(before)
    /\ after.length = before.length + 1
    /\ after.cur_index # npos
    /\ CursorRank(after) = IF before.cur_index = npos THEN 1
                           ELSE CursorRank(before) + 1
    /\ CursorRank(after) # 0

\* C21: in every state of the list, push_back(v) makes the sequence of values
\* s followed by v and push_front(v) makes it v followed by s, length grows
\* by one, and the cursor is on the same node as before (on the new node when
\* there was no cursor)
C21_PushEnds ==
    ~oob =>
        \A v \in Values, ubo \in UBOutcomes :
            /\ PushedBack(Cur, push_back(Cur, v, ubo), v)
            /\ PushedFront(Cur, push_front(Cur, v, ubo), v)

\* the same in the states where the list is as the specification describes it
C21_PushEndsOfList ==
    IsList(Cur) =>
        \A v \in Values, ubo \in UBOutcomes :
            /\ PushedBack(Cur, push_back(Cur, v, ubo), v)
            /\ PushedFront(Cur, push_front(Cur, v, ubo), v)


\* sequence q with v put in after its k-th element (k = 0: in front)
InsertAfter(q, k, v) ==
    [j \in 1..(Len(q) + 1) |-> IF j <= k THEN q[j] ELSE IF j = k + 1 THEN v ELSE q[j - 1]]

\* push_ahead(v) / push_behind(v) did what is claimed to the list before
PushedAhead(before, after, v) ==
    /\ after.status = "ok" /\ ~after.oob
    /\ CursorRank(before) # 0
    /\ Iterate(after) = InsertAfter(Iterate(before), CursorRank(before), v)
    /\ after.length = before.length + 1
    /\ CursorRank(after) = CursorRank(before)

PushedBehind(before, after, v) ==
    /\ after.status = "ok" /\ ~after.oob
    /\ CursorRank(before) # 0
    /\ Iterate(after) = InsertAfter(Iterate(before), CursorRank(before) - 1, v)
    /\ after.length = before.length + 1
    /\ CursorRank(after) = CursorRank(before) + 1

\* C22: in every state of a list that is not empty, push_ahead(v) puts v right
\* after the node of the cursor and push_behind(v) right before it, the other
\* values keep their order, length grows by one and the cursor stays on its
\* node
C22_PushAtCursor ==
    (~oob /\ length > 0) =>
        \A v \in Values, ubo \in UBOutcomes :
            /\ PushedAhead(Cur, push_ahead(Cur, v, ubo), v)
            /\ PushedBehind(Cur, push_behind(Cur, v, ubo), v)

\* the same in the states where the list is as the specification describes it
C22_PushAtCursorOfList ==
    (IsList(Cur) /\ length > 0) =>
        \A v \in Values, ubo \in UBOutcomes :
            /\ PushedAhead(Cur, push_ahead(Cur, v, ubo), v)
            /\ PushedBehind(Cur, push_behind(Cur, v, ubo), v)


\* sequence q without its k-th element
Without(q, k) == [j \in 1..(Len(q) - 1) |-> IF j < k THEN q[j] ELSE q[j + 1]]

\* the call removed the k-th value and nothing else, returned, and left the
\* cursor on the node that is now the c-th (c = 0: no cursor)
Removed(before, after, k, c) ==
    /\ after.status = "ok" /\ ~after.oob
    /\ k \in 1..Len(Iterate(before))
    /\ Iterate(after) = Without(Iterate(before), k)
    /\ after.length = before.length - 1
    /\ IF c = 0 THEN after.cur_index = npos
       ELSE after.cur_index # npos /\ CursorRank(after) = c

\* pop_back() / pop_front() did what is claimed to the list before
PoppedBack(before, after) ==
    LET n == Len(Iterate(before))
        r == CursorRank(before)
    IN  /\ r # 0
        /\ Removed(before, after, n, IF r = n THEN n - 1 ELSE r)

PoppedFront(before, after) ==
    LET n == Len(Iterate(before))
        r == CursorRank(before)
    IN  /\ r # 0
        /\ Removed(before, after, 1, IF r = 1 THEN (IF n > 1 THEN 1 ELSE 0) ELSE r - 1)

\* C23: in every state of a list that is not empty (one node and two nodes
\* included) pop_back() removes the last value and pop_front() the first, the
\* others keep their order, and the cursor stays on its node, or moves to
\* the predecessor (pop_back) / successor (pop_front) of the node removed
\* when it was on that node
C23_PopEnds ==
    (~oob /\ length > 0) =>
        /\ PoppedBack(Cur, pop_back(Cur))
        /\ PoppedFront(Cur, pop_front(Cur))

\* the same in the states where the list is as the specification describes it
C23_PopEndsOfList ==
    (IsList(Cur) /\ length > 0) =>
        /\ PoppedBack(Cur, pop_back(Cur))
        /\ PoppedFront(Cur, pop_front(Cur))

\* the values alone, in those states
C23_PopEndsValuesOfList ==
    (IsList(Cur) /\ length > 0) =>
        /\ Iterate(pop_back(Cur)) = Without(Iterate(Cur), length)
        /\ Iterate(pop_front(Cur)) = Without(Iterate(Cur), 1)


\* pop_advance() / pop_retreat() did what is claimed to the list before
PoppedAdvance(before, after) ==
    LET n == Len(Iterate(before))
        r == CursorRank(before)
    IN  /\ r # 0
        /\ Removed(before, after, r, IF r < n THEN r ELSE r - 1)

PoppedRetreat(before, after) ==
    LET n == Len(Iterate(before))
        r == CursorRank(before)
    IN  /\ r # 0
        /\ Removed(before, after, r, IF r > 1 THEN r - 1 ELSE IF n > 1 THEN 1 ELSE 0)

\* C24: in every state of a list that is not empty, wherever the cursor is,
\* pop_advance() removes the node of the cursor and nothing else, raises no
\* error and leaves the cursor on the successor of that node, else on its
\* predecessor, else nowhere; pop_retreat() does so with the predecessor
\* first
C24_PopAtCursor ==
    (~oob /\ length > 0) =>
        /\ PoppedAdvance(Cur, pop_advance(Cur))
        /\ PoppedRetreat(Cur, pop_retreat(Cur))

\* the same in the states where the list is as the specification describes it
C24_PopAtCursorOfList ==
    (IsList(Cur) /\ length > 0) =>
        /\ PoppedAdvance(Cur, pop_advance(Cur))
        /\ PoppedRetreat(Cur, pop_retreat(Cur))

\* in those states, no error and the node of the cursor removed, whatever
\* becomes of the cursor
C24_PopAtCursorValuesOfList ==
    (IsList(Cur) /\ length > 0) =>
        /\ pop_advance(Cur).status = "ok" /\ pop_retreat(Cur).status = "ok"
        /\ Iterate(pop_advance(Cur)) = Without(Iterate(Cur), CursorRank(Cur))
        /\ Iterate(pop_retreat(Cur)) = Without(Iterate(Cur), CursorRank(Cur))


\* the call returned and changed nothing
Untouched(before, after) ==
    /\ after.status = "ok"
    /\ after.nodes = before.nodes /\ after.length = before.length
    /\ after.cur_index = before.cur_index /\ after.oob = before.oob

\* pop_ahead() / pop_behind() did what is claimed to the list before
PoppedAhead(before, after) ==
    IF has_next(before).value
    THEN /\ CursorRank(before) # 0
         /\ Removed(before, after, CursorRank(before) + 1, CursorRank(before))
         /\ get(after) = get(before)
    ELSE Untouched(before, after)

PoppedBehind(before, after) ==
    IF has_prev(before).value
    THEN /\ CursorRank(before) # 0
         /\ Removed(before, after, CursorRank(before) - 1, CursorRank(before) - 1)
         /\ get(after) = get(before)
    ELSE Untouched(before, after)

\* C25: in every state of the list, pop_ahead() removes the successor of the
\* node of the cursor (the back included) and pop_behind() its predecessor
\* (the front included) and nothing else, the cursor stays on its node and
\* the value of that node is unchanged; without such a neighbour the list is
\* unchanged
C25_PopNeighbour ==
    ~oob =>
        /\ PoppedAhead(Cur, pop_ahead(Cur))
        /\ PoppedBehind(Cur, pop_behind(Cur))

\* the same in the states where the list is as the specification describes it
C25_PopNeighbourOfList ==
    IsList(Cur) =>
        /\ PoppedAhead(Cur, pop_ahead(Cur))
        /\ PoppedBehind(Cur, pop_behind(Cur))


\* the call returned, changed no slot and not the length, and left the
\* cursor on the c-th node
MovedTo(before, after, c) ==
    /\ after.status = "ok"
    /\ after.nodes = before.nodes /\ after.length = before.length
    /\ after.oob = before.oob
    /\ after.cur_index # npos /\ CursorRank(after) = c

\* advance(n), retreat(n), to_front(), to_back() did what is claimed
Navigated(before) ==
    LET n == Len(Iterate(before))
        r == CursorRank(before)
    IN  IF before.cur_index = npos
        THEN /\ \A amt \in 0..MaxStep :
                   /\ Untouched(before, advance_n(before, amt))
                   /\ Untouched(before, retreat_n(before, amt))
             /\ Untouched(before, to_front(before))
             /\ Untouched(before, to_back(before))
        ELSE /\ r # 0
             /\ \A amt \in 0..MaxStep :
                   /\ MovedTo(before, advance_n(before, amt), Min(r + amt, n))
                   /\ MovedTo(before, retreat_n(before, amt), r - Min(amt, r - 1))
             /\ MovedTo(before, advance(before), Min(r + 1, n))
             /\ MovedTo(before, retreat(before), r - Min(1, r - 1))
             /\ MovedTo(before, to_front(before), 1)
             /\ MovedTo(before, to_back(before), n)

\* C26: in every state of the list, advance(n) moves the cursor forward by n
\* nodes or to the last node if fewer follow, retreat(n) backward by n nodes
\* or to the first, to_front() puts it on the first node and to_back() on
\* the last; none raises an error or changes length or a slot
C26_Navigation == ~oob => Navigated(Cur)

\* the same in the states where the list is as the specification describes it
C26_NavigationOfList == IsList(Cur) => Navigated(Cur)

\* a push that found the array full left it with twice the capacity plus
\* one, any other push with the capacity it found, and wrote inside the array
Grown(before, after) ==
    /\ ~after.oob /\ after.status = "ok"
    /\ Cap(after) = IF before.length = Cap(before)
                    THEN Cap(before) * 2 + 1 ELSE Cap(before)
    /\ before.length < Cap(after)

\* C27: every push that finds length = capacity first grows the capacity to
\* twice the old capacity plus one, so the slot it writes lies inside the
\* array, also on a list of capacity 0; a push that finds length < capacity
\* leaves the capacity as it is
C27_PushGrows ==
    ~oob => \A v \in Values, ubo \in UBOutcomes :
                /\ Grown(Cur, push_back(Cur, v, ubo))
                /\ Grown(Cur, push_front(Cur, v, ubo))
                /\ Grown(Cur, push_ahead(Cur, v, ubo))
                /\ Grown(Cur, push_behind(Cur, v, ubo))

\* the same for push_back and push_front alone, on the lists that are as
\* the specification describes them
C27_PushEndsGrowOfList ==
    IsList(Cur) => \A v \in Values, ubo \in UBOutcomes :
                       /\ Grown(Cur, push_back(Cur, v, ubo))
                       /\ Grown(Cur, push_front(Cur, v, ubo))

\* the same for push_ahead and push_behind alone, on the lists that are as
\* the specification describes them
C27_PushAtCursorGrowsOfList ==
    IsList(Cur) => \A v \in Values, ubo \in UBOutcomes :
                       /\ Grown(Cur, push_ahead(Cur, v, ubo))
                       /\ Grown(Cur, push_behind(Cur, v, ubo))


\* LinkedList::size and LinkedList::empty
size(s) == s.length

empty(s) == s.cur_index = npos

\* C28: after every operation (on a list no call has written out of bounds
\* of) the cursor is npos exactly when length is 0, and otherwise it is below
\* length and names a valid slot of the array, so that empty() says what
\* size() = 0 says and get() returns the value of a used slot
C28_CursorNamesElement ==
    ~oob =>
        /\ empty(Cur) <=> size(Cur) = 0
        /\ ~empty(Cur) =>
              /\ cur_index < length
              /\ InBounds(Cur, cur_index) /\ nodes[cur_index].valid
              /\ get(Cur).error = "none"

\* the part of it that says empty() agrees with size() = 0
C28_EmptyAgreesWithSize == ~oob => (empty(Cur) <=> size(Cur) = 0)

\* the part of it that says get() reads a used slot of a list with elements
C28_GetReadsUsedSlot ==
    (~oob /\ length > 0 /\ ~empty(Cur)) =>
        /\ cur_index < length
        /\ InBounds(Cur, cur_index) /\ nodes[cur_index].valid


\* ===================================================================
\* The Executor while it runs: execute() calls of two threads against the
\* workers' loops, no wait() and no destructor, under fair scheduling
\* ===================================================================

\* one step of worker w in run()
WorkerStep(w) ==
    \/ WorkerLoop(w) \/ WorkerLock(w) \/ WorkerPop(w)
    \/ WorkerFlagOn(w) \/ WorkerTask(w) \/ WorkerFlagOff(w)

NextRunning ==
    \/ \E t \in Submitters : ExecuteLockWithin(t, MaxAccepted) \/ ExecutePush(t)
    \/ \E w \in Threads :
          \/ WorkerLoop(w) \/ WorkerLock(w) \/ WorkerPop(w)
          \/ WorkerFlagOn(w) \/ WorkerTask(w) \/ WorkerFlagOff(w)

\* every thread that can take a step is scheduled again: a worker goes on in
\* run(), a thread inside push_back goes on to its return
FairRunning ==
    /\ \A w \in Workers : WF_vars(w \in Threads /\ WorkerStep(w))
    /\ \A t \in Submitters : WF_vars(ExecutePush(t))

SpecRunning == InitExec /\ [][NextRunning]_vars /\ FairRunning

\* how often x occurs in q
Count(q, x) == Cardinality({k \in 1..Len(q) : q[k] = x})

\* no worker pops a slot that holds no submitted task, and no task is
\* popped or run twice
C29_PopsSubmittedOnce ==
    /\ \A k \in 1..Len(out) : out[k] \in Range(pushed) /\ Count(out, out[k]) = 1
    /\ \A k \in 1..Len(ran) : ran[k] \in Range(out) /\ Count(ran, ran[k]) = 1

\* every task whose execute() call returned is eventually run: the tasks
\* accepted and the tasks run only grow, so this says that again and again
\* all the tasks accepted so far have been run
C29_AcceptedEventuallyRun == []<>(ghost.returned \subseteq Range(ran))

\* C29: while the Executor runs, every task whose execute() call returned is
\* eventually popped and run, by one worker and once, under fair scheduling
\* of the threads and whatever the interleaving of the execute() calls with
\* the workers' pops; and no worker ever pops a slot that holds no submitted
\* task
C29_EveryTaskRunOnce == C29_AcceptedEventuallyRun /\ []C29_PopsSubmittedOnce


\* "Node& n = nodes.emplace_at(length++, ...)" in the four pushes: the slot
\* that n names, which is the slot "return n.value" refers to.  new_size is
\* the capacity the push reserves when it finds the array full.
n_slot(s, new_size) ==
    (IF s.length = Cap(s) THEN reserve(s, new_size) ELSE s).length

\* the call returned, and the slot its result refers to is a used slot of
\* the array that holds v
RefersTo(after, slot, v) ==
    /\ after.status = "ok" /\ ~after.oob
    /\ InBounds(after, slot)
    /\ after.nodes[slot].valid /\ after.nodes[slot].value = v

ReturnNew(before) ==
    \A v \in Values, ubo \in UBOutcomes :
        /\ RefersTo(push_back(before, v, ubo), n_slot(before, Cap(before) * 2 + 1), v)
        /\ RefersTo(push_front(before, v, ubo), n_slot(before, Cap(before) * 2 + 1), v)
        /\ RefersTo(push_ahead(before, v, ubo), n_slot(before, Cap(before) * 2), v)
        /\ RefersTo(push_behind(before, v, ubo), n_slot(before, Cap(before) * 2), v)

\* C30: push_back, push_front, push_ahead and push_behind return a reference
\* to the slot that holds the new value: when the call has returned, the slot
\* referred to is valid and its value is the argument, whatever the length
\* of the list was, also when the new node is swapped into slot 0 or 1
C30_PushReturnsNew == ~oob => ReturnNew(Cur)

\* the same in the states where the list is as the specification describes it
C30_PushReturnsNewOfList == IsList(Cur) => ReturnNew(Cur)

\* the same for the pushes at the ends of a list with elements that move no
\* node: push_back on a list of one element
C30_PushBackReturnsNewWithoutSwap ==
    (IsList(Cur) /\ length = 1) =>
        \A v \in Values, ubo \in UBOutcomes :
            RefersTo(push_back(Cur, v, ubo), n_slot(Cur, Cap(Cur) * 2 + 1), v)


\* the same for push_back and push_front alone, which reserve room for the
\* new node on every list
C30_PushEndsReturnNewOfList ==
    IsList(Cur) =>
        \A v \in Values, ubo \in UBOutcomes :
            /\ RefersTo(push_back(Cur, v, ubo), n_slot(Cur, Cap(Cur) * 2 + 1), v)
            /\ RefersTo(push_front(Cur, v, ubo), n_slot(Cur, Cap(Cur) * 2 + 1), v)

====
